---- MODULE Spec2Model ----
(***************************************************************************)
(* envsh: command-line client of the envs.sh file host / URL shortener.    *)
(* One behaviour of this module is one invocation of the program: the      *)
(* command line is parsed (src/src/cli.rs and the clap declarations of     *)
(* src/src/main.rs), a multipart form is built, one POST is sent, and the  *)
(* response is reported.                                                   *)
(*                                                                         *)
(* Text is a sequence of one-character strings.  An i64 is a record        *)
(* [neg, mag] whose magnitude is a sequence of decimal digits without      *)
(* leading zeros, so that the 64-bit range and the epoch-millisecond range *)
(* are the real ones.                                                      *)
(***************************************************************************)
EXTENDS Integers, Sequences, FiniteSets, TLC

\* How far around zero and around the hour threshold the expiry inputs go.
HourProbe == 2

\* ------------------------------------------------------------------------
\* Decimal text and 64-bit integers
\* ------------------------------------------------------------------------

DigitChars == <<"0", "1", "2", "3", "4", "5", "6", "7", "8", "9">>

IsDigit(c) == \E i \in 1..10 : DigitChars[i] = c

DigitOf(c) == (CHOOSE i \in 1..10 : DigitChars[i] = c) - 1

CharOf(d) == DigitChars[d + 1]

\* The text of a digit sequence, most significant digit first.
MagText(mag) == [i \in 1..Len(mag) |-> CharOf(mag[i])]

RECURSIVE Canon(_)
\* A magnitude without its leading zeros; zero is <<0>>.
Canon(mag) ==
    IF Len(mag) = 0 THEN <<0>>
    ELSE IF Len(mag) > 1 /\ mag[1] = 0 THEN Canon(Tail(mag))
    ELSE mag

\* a <= b for magnitudes without leading zeros.
MagLE(a, b) ==
    \/ Len(a) < Len(b)
    \/ /\ Len(a) = Len(b)
       /\ \/ a = b
          \/ \E i \in 1..Len(a) :
                /\ \A j \in 1..(i - 1) : a[j] = b[j]
                /\ a[i] < b[i]

RECURSIVE NatMag(_)
\* The digits of a natural number.
NatMag(n) == IF n < 10 THEN <<n>> ELSE NatMag(n \div 10) \o <<n % 10>>

I64(neg, mag) == [neg |-> neg /\ mag # <<0>>, mag |-> mag]

I64Zero == I64(FALSE, <<0>>)

I64OfInt(n) == IF n < 0 THEN I64(TRUE, NatMag(0 - n)) ELSE I64(FALSE, NatMag(n))

\* x <= y on i64
I64LE(x, y) ==
    IF x.neg
    THEN IF y.neg THEN MagLE(y.mag, x.mag) ELSE TRUE
    ELSE IF y.neg THEN FALSE ELSE MagLE(x.mag, y.mag)

\* i64::MAX = 9223372036854775807 and |i64::MIN| = 9223372036854775808
I64MaxMag == <<9,2,2,3,3,7,2,0,3,6,8,5,4,7,7,5,8,0,7>>

I64MinMag == <<9,2,2,3,3,7,2,0,3,6,8,5,4,7,7,5,8,0,8>>

I64Max == I64(FALSE, I64MaxMag)

ParseErr == [ok |-> FALSE, val |-> I64Zero]

\* value_parser!(i64): the text is parsed with i64::from_str, an optional
\* sign followed by at least one digit, within the 64-bit range.
ParseI64(text) ==
    LET signed == Len(text) > 0 /\ text[1] \in {"+", "-"}
        body   == IF signed THEN Tail(text) ELSE text
        mag    == Canon([i \in 1..Len(body) |-> DigitOf(body[i])])
        neg    == signed /\ text[1] = "-"
    IN  IF Len(body) = 0 \/ \E i \in 1..Len(body) : ~IsDigit(body[i])
        THEN ParseErr
        ELSE IF ~MagLE(mag, IF neg THEN I64MinMag ELSE I64MaxMag)
        THEN ParseErr
        ELSE [ok |-> TRUE, val |-> I64(neg, mag)]

\* Display for i64
I64ToString(x) == (IF x.neg THEN <<"-">> ELSE <<>>) \o MagText(x.mag)

RECURSIVE MagInt(_)
\* The value of a short digit sequence.
MagInt(mag) ==
    IF Len(mag) = 0 THEN 0
    ELSE 10 * MagInt(SubSeq(mag, 1, Len(mag) - 1)) + mag[Len(mag)]

\* ------------------------------------------------------------------------
\* jiff::Timestamp and Expiry
\* ------------------------------------------------------------------------

\* The epoch-millisecond range of jiff::Timestamp:
\* -377705023201000 ..= 253402207200999
TimestampMinMs == I64(TRUE, <<3,7,7,7,0,5,0,2,3,2,0,1,0,0,0>>)

TimestampMaxMs == I64(FALSE, <<2,5,3,4,0,2,2,0,7,2,0,0,9,9,9>>)

TimestampZero == [second |-> I64Zero, nanosecond |-> 0]

\* Timestamp::from_millisecond: fails outside the range; otherwise whole
\* seconds and the sub-second part in nanoseconds, both with the sign of ms.
TimestampFromMillisecond(ms) ==
    LET n      == Len(ms.mag)
        secMag == IF n > 3 THEN SubSeq(ms.mag, 1, n - 3) ELSE <<0>>
        milli  == MagInt(IF n > 3 THEN SubSeq(ms.mag, n - 2, n) ELSE ms.mag)
    IN  IF I64LE(TimestampMinMs, ms) /\ I64LE(ms, TimestampMaxMs)
        THEN [ok |-> TRUE,
              val |-> [second |-> I64(ms.neg, secMag),
                       nanosecond |-> (IF ms.neg THEN 0 - milli ELSE milli) * 1000000]]
        ELSE [ok |-> FALSE, val |-> TimestampZero]

\* Timestamp::as_millisecond: second * 1000 + nanosecond / 1_000_000
TimestampAsMillisecond(ts) ==
    LET absn  == IF ts.nanosecond < 0 THEN 0 - ts.nanosecond ELSE ts.nanosecond
        milli == absn \div 1000000
        low   == <<milli \div 100, (milli \div 10) % 10, milli % 10>>
    IN  I64(ts.second.neg \/ ts.nanosecond < 0, Canon(ts.second.mag \o low))

MAX_EXPIRY_HOURS == I64OfInt(24 * 30)

Hours(h) == [kind |-> "Hours", h |-> h, ts |-> TimestampZero]

Timestamp(ts) == [kind |-> "Timestamp", h |-> I64Zero, ts |-> ts]

NoExpiry == [kind |-> "None", h |-> I64Zero, ts |-> TimestampZero]

\* Display for Expiry printing a timestamp in seconds
ExpiryToStringSeconds(e) ==
    IF e.kind = "Hours" THEN I64ToString(e.h)
    ELSE I64ToString(e.ts.second)

\* impl Display for Expiry
ExpiryToString(e) ==
    IF e.kind = "Hours" THEN I64ToString(e.h)
    ELSE I64ToString(TimestampAsMillisecond(e.ts))

\* ExpiryValueParser with `<` in place of `<=`
ExpiryValueParserStrict(text) ==
    LET expiry == ParseI64(text)
        ts     == TimestampFromMillisecond(expiry.val)
    IN  IF ~expiry.ok THEN [res |-> "err", val |-> NoExpiry]
        ELSE IF I64LE(expiry.val, MAX_EXPIRY_HOURS) /\ expiry.val # MAX_EXPIRY_HOURS
        THEN [res |-> "ok", val |-> Hours(expiry.val)]
        ELSE IF ts.ok THEN [res |-> "ok", val |-> Timestamp(ts.val)]
        ELSE [res |-> "panic", val |-> NoExpiry]

\* ExpiryValueParser::parse_ref: "err" is a clap error, "panic" the
\* expect("invalid timestamp").
ExpiryValueParser(text) ==
    LET expiry == ParseI64(text)
        ts     == TimestampFromMillisecond(expiry.val)
    IN  IF ~expiry.ok THEN [res |-> "err", val |-> NoExpiry]
        ELSE IF I64LE(expiry.val, MAX_EXPIRY_HOURS)
        THEN [res |-> "ok", val |-> Hours(expiry.val)]
        ELSE IF ts.ok THEN [res |-> "ok", val |-> Timestamp(ts.val)]
        ELSE [res |-> "panic", val |-> NoExpiry]

\* ------------------------------------------------------------------------
\* Command-line strings, URLs and the local file system
\* ------------------------------------------------------------------------

\* A command-line string together with what Url::from_str sees in it:
\* wf says whether it is an absolute URL, scheme and host are as typed,
\* is_domain is FALSE for an IP-address host, norm is the serialisation of
\* the parsed URL.
StrArg(str, wf, scheme, host, is_domain, norm) ==
    [str |-> str, wf |-> wf, scheme |-> scheme, host |-> host,
     is_domain |-> is_domain, norm |-> norm]

\* Url::from_str lower-cases the scheme and the host.
Lower(s) ==
    CASE s = "HTTPS" -> "https"
      [] s = "ENVS.SH" -> "envs.sh"
      [] OTHER -> s

NoUrl == [scheme |-> "", host |-> "", is_domain |-> FALSE, str |-> ""]

UrlFromStr(a) ==
    IF a.wf
    THEN [ok |-> TRUE,
          val |-> [scheme |-> Lower(a.scheme), host |-> Lower(a.host),
                   is_domain |-> a.is_domain, str |-> a.norm]]
    ELSE [ok |-> FALSE, val |-> NoUrl]

\* const ENVS: &str = "https://envs.sh", as reqwest parses it
ENVS ==
    UrlFromStr(StrArg("https://envs.sh", TRUE, "https", "envs.sh", TRUE,
                      "https://envs.sh/")).val

\* Paths that are regular files, and those of them that can be opened.
RegularFiles == {"notes.txt", "locked.txt", "data:x"}

OpenableFiles == {"notes.txt", "data:x"}

IsFile(path) == path \in RegularFiles

\* Part::file(f) succeeds when the file can be opened.
PartFileOk(path) == path \in OpenableFiles

NoTarget == [kind |-> "None", path |-> "", url |-> NoUrl]

\* TargetValueParser::parse_ref
TargetValueParser(a) ==
    LET url == UrlFromStr(a)
    IN  IF a.str = "" THEN [res |-> "err", val |-> NoTarget]
        ELSE IF IsFile(a.str)
        THEN [res |-> "ok", val |-> [kind |-> "File", path |-> a.str, url |-> NoUrl]]
        ELSE IF url.ok
        THEN [res |-> "ok", val |-> [kind |-> "Url", path |-> "", url |-> url.val]]
        ELSE [res |-> "err", val |-> NoTarget]

\* EnvsUrlValueParser without the scheme test
EnvsUrlValueParserAnyScheme(a) ==
    LET url == UrlFromStr(a)
    IN  IF a.str = "" \/ ~url.ok THEN [res |-> "err", val |-> NoUrl]
        ELSE IF url.val.is_domain /\ url.val.host = "envs.sh"
        THEN [res |-> "ok", val |-> url.val]
        ELSE [res |-> "err", val |-> NoUrl]

\* EnvsUrlValueParser::parse_ref
EnvsUrlValueParser(a) ==
    LET url == UrlFromStr(a)
    IN  IF a.str = "" \/ ~url.ok THEN [res |-> "err", val |-> NoUrl]
        ELSE IF url.val.scheme = "https" /\ url.val.is_domain /\ url.val.host = "envs.sh"
        THEN [res |-> "ok", val |-> url.val]
        ELSE [res |-> "err", val |-> NoUrl]

\* value_parser of clap_complete::Shell
Shells == {"bash", "elvish", "fish", "powershell", "zsh"}

ShellValueParser(s) == IF s \in Shells THEN "ok" ELSE "err"

\* ------------------------------------------------------------------------
\* The command lines tried
\* ------------------------------------------------------------------------

Text(digits) == MagText(digits)

ExpiryTexts ==
    {I64ToString(I64OfInt(n)) : n \in (0 - HourProbe)..HourProbe}
    \cup {I64ToString(I64OfInt(24 * 30 + n)) : n \in (0 - HourProbe)..HourProbe}
    \cup {<<"+">> \o Text(<<5>>), Text(<<0,0,7>>), <<"-">> \o Text(<<0>>),
          Text(<<1,2>>) \o <<"x">>, <<>>, <<"-">>,
          Text(<<1,7,0,0,0,0,0,0,0,0,0,0,0>>),
          Text(<<2,5,3,4,0,2,2,0,7,2,0,0,9,9,9>>),
          Text(<<2,5,3,4,0,2,2,0,7,2,0,1,0,0,0>>),
          Text(I64MaxMag), Text(I64MinMag), <<"-">> \o Text(I64MinMag)}

TargetArgs ==
    {StrArg("notes.txt", FALSE, "", "", FALSE, ""),
     StrArg("locked.txt", FALSE, "", "", FALSE, ""),
     StrArg("data:x", TRUE, "data", "", FALSE, "data:x"),
     StrArg("https://example.com/a.png", TRUE, "https", "example.com", TRUE,
            "https://example.com/a.png"),
     StrArg("not a url", FALSE, "", "", FALSE, ""),
     StrArg("", FALSE, "", "", FALSE, "")}

ManageUrlArgs ==
    {StrArg("https://envs.sh/abc", TRUE, "https", "envs.sh", TRUE, "https://envs.sh/abc"),
     StrArg("HTTPS://ENVS.SH/abc", TRUE, "HTTPS", "ENVS.SH", TRUE, "https://envs.sh/abc"),
     StrArg("https://envs.sh:8443/abc", TRUE, "https", "envs.sh", TRUE,
            "https://envs.sh:8443/abc"),
     StrArg("http://envs.sh/abc", TRUE, "http", "envs.sh", TRUE, "http://envs.sh/abc"),
     StrArg("https://evil.example/abc", TRUE, "https", "evil.example", TRUE,
            "https://evil.example/abc"),
     StrArg("https://envs.sh.evil.example/abc", TRUE, "https", "envs.sh.evil.example",
            TRUE, "https://envs.sh.evil.example/abc"),
     StrArg("https://sub.envs.sh/abc", TRUE, "https", "sub.envs.sh", TRUE,
            "https://sub.envs.sh/abc"),
     StrArg("https://10.0.0.1/abc", TRUE, "https", "10.0.0.1", FALSE,
            "https://10.0.0.1/abc"),
     StrArg("envs.sh/abc", FALSE, "", "", FALSE, ""),
     StrArg("", FALSE, "", "", FALSE, "")}

NoStr == StrArg("", FALSE, "", "", FALSE, "")

\* An optional argument is a sequence of length 0 or 1.
Opt(S) == {<<>>} \cup {<<x>> : x \in S}

\* envsh [-d] [-s] [-S] [-e TIME] [FILE|URL]
CreateArgv ==
    [subcom : {"none"}, target : Opt(TargetArgs), display_secret : BOOLEAN,
     shorten : BOOLEAN, secret : BOOLEAN, expires : Opt(ExpiryTexts),
     url : {NoStr}, token : {""}, m_expires : {<<>>}, delete : {FALSE},
     shell : {""}]

\* envsh [URL] manage <url> <token> [-e TIME] [-d]
ManageArgv ==
    [subcom : {"manage"},
     target : {<<>>, <<StrArg("https://example.com/a.png", TRUE, "https",
                              "example.com", TRUE, "https://example.com/a.png")>>},
     display_secret : {FALSE}, shorten : {FALSE}, secret : {FALSE},
     expires : {<<>>}, url : ManageUrlArgs, token : {"tok123"},
     m_expires : Opt(ExpiryTexts), delete : BOOLEAN, shell : {""}]

\* envsh completion <shell>
CompletionArgv ==
    [subcom : {"completion"}, target : {<<>>}, display_secret : {FALSE},
     shorten : {FALSE}, secret : BOOLEAN, expires : {<<>>}, url : {NoStr},
     token : {""}, m_expires : {<<>>}, delete : {FALSE},
     shell : Shells \cup {"tcsh"}]

\* ------------------------------------------------------------------------
\* The service's responses
\* ------------------------------------------------------------------------

\* A response header: absent, or bytes that are visible ASCII or not.
Header(present, ascii, str) == [present |-> present, ascii |-> ascii, str |-> str]

NoHeader == Header(FALSE, FALSE, "")

OpaqueHeader == Header(TRUE, FALSE, "")

XExpiresValues ==
    {NoHeader, OpaqueHeader} \cup
    {Header(TRUE, TRUE, t) : t \in {"1700000000000", "1700000000000.5", "abc", "inf", "NaN"}}

XTokenValues == {NoHeader, OpaqueHeader, Header(TRUE, TRUE, "tok123")}

\* A body that cannot be read to its end is "<broken>".
Bodies == {"https://envs.sh/abc.txt\n", "Not Found", "<broken>"}

Responses ==
    [status : {200, 204, 404}, x_expires : XExpiresValues, x_token : XTokenValues,
     body : Bodies]

NoResponse == [status |-> 0, x_expires |-> NoHeader, x_token |-> NoHeader, body |-> ""]

\* StatusCode::is_success
IsSuccess(status) == 200 <= status /\ status <= 299

\* str::trim
Trim(s) == IF s = "https://envs.sh/abc.txt\n" THEN "https://envs.sh/abc.txt" ELSE s

\* f64::from_str followed by `as i64`: the cast truncates, saturates at the
\* 64-bit range and maps NaN to zero.
F64AsI64(str) ==
    CASE str = "1700000000000" ->
            [ok |-> TRUE, val |-> I64(FALSE, <<1,7,0,0,0,0,0,0,0,0,0,0,0>>)]
      [] str = "1700000000000.5" ->
            [ok |-> TRUE, val |-> I64(FALSE, <<1,7,0,0,0,0,0,0,0,0,0,0,0>>)]
      [] str = "inf" -> [ok |-> TRUE, val |-> I64Max]
      [] str = "NaN" -> [ok |-> TRUE, val |-> I64Zero]
      [] OTHER -> [ok |-> FALSE, val |-> I64Zero]

\* ------------------------------------------------------------------------
\* One invocation
\* ------------------------------------------------------------------------

VARIABLES
    argv,   \* the command line
    pc,     \* where the process is
    args,   \* the parsed Cli
    form,   \* the multipart form built so far
    posts,  \* the POST requests issued
    resp,   \* the response received, if any
    out,    \* what was printed on standard output
    exit    \* the exit code once pc = "exited"

vars == <<argv, pc, args, form, posts, resp, out, exit>>

\* clap exits with 2 on a usage error; a panic exits with 101.
ExitUsage == 2

ExitPanic == 101

Range(seq) == {seq[i] : i \in DOMAIN seq}

RootArgsGiven(a) ==
    a.target # <<>> \/ a.display_secret \/ a.shorten \/ a.secret \/ a.expires # <<>>

\* #[group(required = true)] on ManageOpts: at least one member is given.
ManageOptsGroup(a) == a.delete \/ a.m_expires # <<>>

\* The results of the value parsers that run on a command line.
ValueResults(a) ==
    {TargetValueParser(t).res : t \in Range(a.target)}
    \cup {ExpiryValueParser(e).res : e \in Range(a.expires)}
    \cup (IF a.subcom = "manage"
          THEN {EnvsUrlValueParser(a.url).res}
               \cup {ExpiryValueParser(e).res : e \in Range(a.m_expires)}
          ELSE {})
    \cup (IF a.subcom = "completion" THEN {ShellValueParser(a.shell)} ELSE {})

\* Cli::parse: the possible outcomes.  Values are parsed in command-line
\* order, so whichever failing value comes first decides; the conflicts and
\* the required arguments are validated afterwards.
CliParse(a) ==
    LET bad == ValueResults(a) \cap {"err", "panic"}
    IN  IF a.subcom # "none" /\ RootArgsGiven(a) THEN {"err"}
        ELSE IF bad # {} THEN bad
        ELSE IF a.subcom = "none" /\ (a.target = <<>> \/ (a.display_secret /\ a.shorten))
        THEN {"err"}
        ELSE IF a.subcom = "manage" /\ ~ManageOptsGroup(a) THEN {"err"}
        ELSE {"ok"}

NoArgs ==
    [subcom |-> "", target |-> NoTarget, display_secret |-> FALSE, shorten |-> FALSE,
     secret |-> FALSE, expires |-> <<>>, url |-> NoUrl, token |-> "",
     m_expires |-> <<>>, delete |-> FALSE, shell |-> ""]

\* The Cli value of a command line that parses.
Cli(a) ==
    [subcom |-> a.subcom,
     target |-> IF a.target = <<>> THEN NoTarget ELSE TargetValueParser(a.target[1]).val,
     display_secret |-> a.display_secret, shorten |-> a.shorten, secret |-> a.secret,
     expires |-> [i \in DOMAIN a.expires |-> ExpiryValueParser(a.expires[i]).val],
     url |-> IF a.subcom = "manage" THEN EnvsUrlValueParser(a.url).val ELSE NoUrl,
     token |-> a.token,
     m_expires |-> [i \in DOMAIN a.m_expires |-> ExpiryValueParser(a.m_expires[i]).val],
     delete |-> a.delete, shell |-> a.shell]

Init ==
    /\ argv \in CreateArgv \cup ManageArgv \cup CompletionArgv
    /\ pc = "main"
    /\ args = NoArgs
    /\ form = <<>>
    /\ posts = <<>>
    /\ resp = NoResponse
    /\ out = <<>>
    /\ exit = 0

\* main: Cli::parse() and the match on args.subcom
Main ==
    /\ pc = "main"
    /\ \E o \in CliParse(argv) :
          CASE o = "ok" ->
                 /\ args' = Cli(argv)
                 /\ pc' = CASE argv.subcom = "manage" -> "manage_url"
                            [] argv.subcom = "completion" -> "generate_shell_completion"
                            [] OTHER -> "create_url"
                 /\ exit' = exit
            [] o = "err" -> /\ pc' = "exited" /\ exit' = ExitUsage /\ args' = args
            [] OTHER -> /\ pc' = "exited" /\ exit' = ExitPanic /\ args' = args
    /\ UNCHANGED <<argv, form, posts, resp, out>>

TextPart(name, value) == [name |-> name, kind |-> "text", value |-> value]

FilePart(name, path) == [name |-> name, kind |-> "file", value |-> <<path>>]

\* The primary part when --shorten is ignored for a file and sent as `url`
\* for a URL
PrimaryPartNoShorten(a) ==
    LET has_exp == a.expires # <<>>
    IN  CASE a.target.kind = "Url" /\ ~has_exp ->
               [res |-> "ok", part |-> TextPart("url", <<a.target.url.str>>)]
          [] a.target.kind = "File" ->
               IF PartFileOk(a.target.path)
               THEN [res |-> "ok", part |-> FilePart("file", a.target.path)]
               ELSE [res |-> "panic", part |-> TextPart("", <<>>)]
          [] OTHER -> [res |-> "panic", part |-> TextPart("", <<>>)]

\* The primary part when --expires is let through for a URL
PrimaryPartUrlExpires(a) ==
    CASE a.target.kind = "Url" /\ ~a.shorten ->
           [res |-> "ok", part |-> TextPart("url", <<a.target.url.str>>)]
      [] a.target.kind = "Url" /\ a.shorten ->
           [res |-> "ok", part |-> TextPart("shorten", <<a.target.url.str>>)]
      [] a.target.kind = "File" /\ ~a.shorten ->
           IF PartFileOk(a.target.path)
           THEN [res |-> "ok", part |-> FilePart("file", a.target.path)]
           ELSE [res |-> "panic", part |-> TextPart("", <<>>)]
      [] OTHER -> [res |-> "panic", part |-> TextPart("", <<>>)]

\* The first element of create_form: the primary part, or a panic.
PrimaryPart(a) ==
    LET has_exp == a.expires # <<>>
    IN  CASE a.target.kind = "Url" /\ ~a.shorten /\ ~has_exp ->
               [res |-> "ok", part |-> TextPart("url", <<a.target.url.str>>)]
          [] a.target.kind = "Url" /\ a.shorten /\ ~has_exp ->
               [res |-> "ok", part |-> TextPart("shorten", <<a.target.url.str>>)]
          [] a.target.kind = "File" /\ ~a.shorten ->
               IF PartFileOk(a.target.path)
               THEN [res |-> "ok", part |-> FilePart("file", a.target.path)]
               ELSE [res |-> "panic", part |-> TextPart("", <<>>)]
          [] OTHER -> [res |-> "panic", part |-> TextPart("", <<>>)]

\* create_form: the primary part, then secret, then expires.
CreateForm(a) ==
    <<PrimaryPart(a).part>>
    \o (IF a.secret THEN <<TextPart("secret", <<>>)>> ELSE <<>>)
    \o [i \in DOMAIN a.expires |-> TextPart("expires", ExpiryToString(a.expires[i]))]

\* create_url, the form
CreateUrl ==
    /\ pc = "create_url"
    /\ IF PrimaryPart(args).res = "ok"
       THEN /\ form' = CreateForm(args)
            /\ pc' = "create_send"
            /\ exit' = exit
       ELSE /\ form' = form
            /\ pc' = "exited"
            /\ exit' = ExitPanic
    /\ UNCHANGED <<argv, args, posts, resp, out>>

\* send() that tries a second time after a transport failure
SendRetry(dest, f, next) ==
    /\ \/ /\ posts' = posts \o <<[dest |-> dest, form |-> f], [dest |-> dest, form |-> f]>>
          /\ resp' = resp
          /\ pc' = "exited"
          /\ exit' = ExitPanic
       \/ /\ posts' = Append(posts, [dest |-> dest, form |-> f])
          /\ resp' \in Responses
          /\ pc' = next
          /\ exit' = exit
    /\ UNCHANGED <<argv, args, form, out>>

\* Client::new().post(dest).multipart(f).send().unwrap(): one request; a
\* transport failure panics, otherwise a response arrives.
Send(dest, f, next) ==
    /\ posts' = Append(posts, [dest |-> dest, form |-> f])
    /\ \/ /\ resp' = resp
          /\ pc' = "exited"
          /\ exit' = ExitPanic
       \/ /\ resp' \in Responses
          /\ pc' = next
          /\ exit' = exit
    /\ UNCHANGED <<argv, args, form, out>>

\* create_url, the request
CreateSend ==
    /\ pc = "create_send"
    /\ Send(ENVS, form, "create_report")

Line(line, status, str, ts) == [line |-> line, status |-> status, str |-> str, ts |-> ts]

\* expires_value of create_url
ExpiresValue(h) ==
    LET ms == F64AsI64(h.str)
        ts == TimestampFromMillisecond(ms.val)
    IN  IF ~h.present THEN [res |-> "ok", val |-> <<>>]
        ELSE IF ~h.ascii \/ ~ms.ok THEN [res |-> "panic", val |-> <<>>]
        ELSE IF ts.ok THEN [res |-> "ok", val |-> <<ts.val>>]
        ELSE [res |-> "ok", val |-> <<>>]

\* token_value of create_url
TokenValue(h) == IF h.present /\ h.ascii THEN <<h.str>> ELSE <<>>

\* create_url, the report
CreateReport ==
    /\ pc = "create_report"
    /\ LET expires == IF args.display_secret THEN ExpiresValue(resp.x_expires).val ELSE <<>>
           token   == IF args.display_secret THEN TokenValue(resp.x_token) ELSE <<>>
       IN  IF args.display_secret /\ ExpiresValue(resp.x_expires).res = "panic"
           THEN /\ out' = out
                /\ exit' = ExitPanic
           ELSE IF resp.body = "<broken>"
           THEN /\ out' = Append(out, Line("prefix", resp.status, "", TimestampZero))
                /\ exit' = ExitPanic
           ELSE /\ out' = out
                          \o <<Line("status", resp.status, Trim(resp.body), TimestampZero)>>
                          \o [i \in DOMAIN expires |-> Line("expires", 0, "", expires[i])]
                          \o [i \in DOMAIN token |-> Line("token", 0, token[i], TimestampZero)]
                /\ exit' = exit
    /\ pc' = "exited"
    /\ UNCHANGED <<argv, args, form, posts, resp>>

\* manage_form that lets --expires win over --delete
ManageFormExpiresFirst(a) ==
    <<TextPart("token", <<a.token>>),
      IF a.m_expires # <<>> THEN TextPart("expires", ExpiryToString(a.m_expires[1]))
      ELSE TextPart("delete", <<>>)>>

\* manage_form: token, then delete or expires.
ManageForm(a) ==
    <<TextPart("token", <<a.token>>),
      IF a.delete THEN TextPart("delete", <<>>)
      ELSE TextPart("expires", ExpiryToString(a.m_expires[1]))>>

\* manage_url, the form
ManageUrl ==
    /\ pc = "manage_url"
    /\ IF args.delete \/ args.m_expires # <<>>
       THEN /\ form' = ManageForm(args)
            /\ pc' = "manage_send"
            /\ exit' = exit
       ELSE /\ form' = form
            /\ pc' = "exited"
            /\ exit' = ExitPanic
    /\ UNCHANGED <<argv, args, posts, resp, out>>

\* manage_url, the request
ManageSend ==
    /\ pc = "manage_send"
    /\ Send(args.url, form, "manage_report")

\* manage_url, the report
ManageReport ==
    /\ pc = "manage_report"
    /\ IF IsSuccess(resp.status)
       THEN /\ out' = Append(out, Line("accepted", resp.status, "", TimestampZero))
            /\ exit' = exit
       ELSE IF resp.body = "<broken>"
       THEN /\ out' = out
            /\ exit' = ExitPanic
       ELSE /\ out' = Append(out, Line("status", resp.status, resp.body, TimestampZero))
            /\ exit' = exit
    /\ pc' = "exited"
    /\ UNCHANGED <<argv, args, form, posts, resp>>

\* generate_shell_completion
GenerateShellCompletion ==
    /\ pc = "generate_shell_completion"
    /\ out' = Append(out, Line("completion", 0, args.shell, TimestampZero))
    /\ pc' = "exited"
    /\ UNCHANGED <<argv, args, form, posts, resp, exit>>

Next ==
    \/ Main
    \/ CreateUrl
    \/ CreateSend
    \/ CreateReport
    \/ ManageUrl
    \/ ManageSend
    \/ ManageReport
    \/ GenerateShellCompletion

Spec == Init /\ [][Next]_vars

\* ------------------------------------------------------------------------
\* Properties
\* ------------------------------------------------------------------------

Names(f) == [i \in DOMAIN f |-> f[i].name]

HasField(f, name) == \E i \in DOMAIN f : f[i].name = name

Printed(line) == \E i \in DOMAIN out : out[i].line = line

Responded == resp # NoResponse

\* How the target string of the command line classifies.
TargetKind == IF argv.target = <<>> THEN "None" ELSE TargetValueParser(argv.target[1]).val.kind

\* The expiry text of the command line, of the sub-command in use.
ExpiryArg == IF argv.subcom = "manage" THEN argv.m_expires ELSE argv.expires

\* The expiry of the parsed Cli, of the sub-command in use.
ExpiryParsed == IF argv.subcom = "manage" THEN args.m_expires ELSE args.expires

\* ms is a valid epoch-millisecond value.
ValidEpochMs(ms) == I64LE(TimestampMinMs, ms) /\ I64LE(ms, TimestampMaxMs)

\* The expiry text is an integer that classification accepts.
ExpiryArgOk(e) ==
    /\ ParseI64(e).ok
    /\ I64LE(ParseI64(e).val, I64OfInt(720)) \/ ValidEpochMs(ParseI64(e).val)

\* The management URL of the command line has scheme https and host envs.sh.
IsEnvsUrl(a) ==
    /\ a.wf
    /\ UrlFromStr(a).val.scheme = "https"
    /\ UrlFromStr(a).val.host = "envs.sh"

\* The flags of a creation invocation do not fit its target.
IncompatibleFlags ==
    /\ argv.subcom = "none"
    /\ \/ TargetKind = "File" /\ argv.shorten
       \/ TargetKind = "Url" /\ argv.expires # <<>>

\* The invocation passes every check made before the network is used.
PassesValidation ==
    /\ \A i \in DOMAIN ExpiryArg : ExpiryArgOk(ExpiryArg[i])
    /\ \/ /\ argv.subcom = "none"
          /\ TargetKind \in {"File", "Url"}
          /\ ~(argv.display_secret /\ argv.shorten)
          /\ ~IncompatibleFlags
          /\ TargetKind = "File" => PartFileOk(argv.target[1].str)
       \/ /\ argv.subcom = "manage"
          /\ ~RootArgsGiven(argv)
          /\ IsEnvsUrl(argv.url)
          /\ argv.delete \/ argv.m_expires # <<>>

\* C1: a management request is sent only when exactly one of --delete and
\* --expires is supplied; both or neither is rejected before any POST.
C1_ExactlyOneOfDeleteExpires ==
    (argv.subcom = "manage" /\ posts # <<>>)
        => (argv.delete # (argv.m_expires # <<>>))

\* C2: once a response was received (and its body could be read) the
\* process exits with code zero, whatever the status, headers and body.
C2_ResponseReceivedExitsZero ==
    (pc = "exited" /\ Responded /\ resp.body # "<broken>") => exit = 0

\* C3: every creation form sent has exactly one primary field: file iff the
\* target is a file and no shorten, url iff a URL and no shorten, shorten iff
\* a URL and shorten.
C3_OnePrimaryField ==
    argv.subcom = "none" =>
        \A i \in DOMAIN posts :
            LET f == posts[i].form
            IN  /\ Cardinality({j \in DOMAIN f : f[j].name \in {"file", "url", "shorten"}}) = 1
                /\ HasField(f, "file") <=> (TargetKind = "File" /\ ~argv.shorten)
                /\ HasField(f, "url") <=> (TargetKind = "Url" /\ ~argv.shorten)
                /\ HasField(f, "shorten") <=> (TargetKind = "Url" /\ argv.shorten)

C3_Witness ==
    /\ argv.subcom = "none" /\ posts # <<>>
    /\ TargetKind = "Url" /\ argv.shorten
    /\ HasField(posts[1].form, "shorten")
    /\ ~HasField(posts[1].form, "url")

\* C4: a creation invocation whose flags do not fit its target never issues
\* a POST and ends with a non-zero exit code.
C4_IncompatibleFlagsRejected ==
    IncompatibleFlags =>
        /\ posts = <<>>
        /\ pc \in {"main", "create_url", "exited"}
        /\ pc = "exited" => exit # 0

C4_Witness ==
    /\ pc = "exited" /\ exit = ExitPanic /\ posts = <<>>
    /\ args.target.kind = "File" /\ args.shorten

\* C5: an integer at or below 720 classifies as relative hours of that
\* integer, a valid epoch-millisecond value above 720 as the timestamp of
\* that value, and any other integer above 720 yields no Expiry and no POST.
C5_ExpiryClassification ==
    pc # "main" =>
        \A i \in DOMAIN ExpiryArg :
            LET n == ParseI64(ExpiryArg[i])
            IN  n.ok =>
                  IF I64LE(n.val, I64OfInt(720))
                  THEN args.subcom # "" => ExpiryParsed[i] = Hours(n.val)
                  ELSE IF ValidEpochMs(n.val)
                  THEN args.subcom # "" =>
                          /\ ExpiryParsed[i].kind = "Timestamp"
                          /\ TimestampAsMillisecond(ExpiryParsed[i].ts) = n.val
                  ELSE args = NoArgs /\ posts = <<>> /\ pc = "exited" /\ exit # 0

C5_Witness ==
    /\ args.expires # <<>>
    /\ args.expires[1].kind = "Timestamp"
    /\ argv.expires[1] = Text(<<7, 2, 1>>)

\* C6: a management URL is accepted iff its scheme is https and its host is
\* envs.sh, and a management POST only ever goes to such a URL.
C6_ManageUrlAccepted ==
    argv.subcom = "manage" =>
        /\ (EnvsUrlValueParser(argv.url).res = "ok") <=> IsEnvsUrl(argv.url)
        /\ args.subcom = "manage" => IsEnvsUrl(argv.url)
        /\ (pc # "main" /\ PassesValidation) => args.subcom = "manage"
        /\ (pc = "exited" /\ ~IsEnvsUrl(argv.url)) =>
              /\ posts = <<>>
              /\ exit = ExitUsage \/ (exit = ExitPanic /\ ~PassesValidation)
        /\ \A i \in DOMAIN posts :
              /\ IsEnvsUrl(argv.url)
              /\ posts[i].dest.scheme = "https"
              /\ posts[i].dest.host = "envs.sh"

C6_Witness ==
    /\ argv.subcom = "manage" /\ posts # <<>>
    /\ argv.url.str = "HTTPS://ENVS.SH/abc"
    /\ posts[1].dest.str = "https://envs.sh/abc"

\* The X-Expires header is present and reads as epoch milliseconds.
XExpiresParseable ==
    /\ resp.x_expires.present /\ resp.x_expires.ascii
    /\ F64AsI64(resp.x_expires.str).ok
    /\ ValidEpochMs(F64AsI64(resp.x_expires.str).val)

\* C7: after a creation response the status/body line is printed in every
\* case; the token line iff --display-secret and a readable X-Token; the
\* expiry line iff --display-secret and a parseable X-Expires.
C7_SecretLines ==
    (argv.subcom = "none" /\ pc = "exited" /\ Responded /\ resp.body # "<broken>") =>
        /\ Printed("status")
        /\ Printed("token") <=>
              (argv.display_secret /\ resp.x_token.present /\ resp.x_token.ascii)
        /\ Printed("expires") <=> (argv.display_secret /\ XExpiresParseable)

\* C8: a management form sent with --delete is exactly token and an empty
\* delete; one sent without --delete is exactly token and expires.
C8_ManageFormFields ==
    argv.subcom = "manage" =>
        \A i \in DOMAIN posts :
            LET f == posts[i].form
            IN  /\ f[1].value = <<argv.token>>
                /\ IF argv.delete
                   THEN Names(f) = <<"token", "delete">> /\ f[2].value = <<>>
                   ELSE Names(f) = <<"token", "expires">>

C8_Witness ==
    /\ argv.subcom = "manage" /\ posts # <<>> /\ argv.delete
    /\ Names(posts[1].form) = <<"token", "delete">>

\* C9: at most one POST per invocation and none retried; nothing about the
\* response is printed before it arrived; an invocation that passes
\* validation issues exactly one POST, to the service for creation and to
\* the supplied URL for management; any other invocation issues none.
C9_OnePost ==
    /\ Len(posts) <= 1
    /\ (out # <<>> /\ argv.subcom # "completion") => (Responded /\ Len(posts) = 1)
    /\ Responded => Len(posts) = 1
    /\ pc = "exited" => (Len(posts) = 1 <=> PassesValidation)
    /\ ~PassesValidation => posts = <<>>
    /\ \A i \in DOMAIN posts :
          posts[i].dest = IF argv.subcom = "manage" THEN UrlFromStr(argv.url).val ELSE ENVS

C9_Witness ==
    /\ pc = "exited" /\ Len(posts) = 1 /\ ~Responded /\ exit = ExitPanic

\* The text is the plain decimal form of an integer: no plus sign, no
\* leading zero, no negative zero.
PlainDecimal(t) ==
    LET body == IF Len(t) > 0 /\ t[1] = "-" THEN Tail(t) ELSE t
    IN  /\ Len(body) > 0
        /\ \A k \in DOMAIN body : IsDigit(body[k])
        /\ Len(body) > 1 => body[1] # "0"
        /\ body = <<"0">> => t = body

\* C10: an expires field of a form that is sent is the decimal text of
\* exactly the integer supplied, and a creation form has the field iff an
\* expiry was supplied.
C10_ExpiryRoundTrip ==
    \A i \in DOMAIN posts :
        LET f == posts[i].form
        IN  /\ \A j \in DOMAIN f :
                  f[j].name = "expires" =>
                      /\ ExpiryArg # <<>>
                      /\ PlainDecimal(f[j].value)
                      /\ ParseI64(f[j].value) = ParseI64(ExpiryArg[1])
            /\ argv.subcom = "none" => (HasField(f, "expires") <=> argv.expires # <<>>)

C10_Witness ==
    /\ argv.subcom = "none" /\ posts # <<>>
    /\ args.expires # <<>> /\ args.expires[1].kind = "Timestamp"
    /\ HasField(posts[1].form, "expires")

====
